---- MODULE Spec2Model ----
(***************************************************************************)
(* The copy-on-write outline tree of task-list-and-time (models/node):     *)
(* Node objects live in a heap, so that object identity, shared children   *)
(* and parent back-references are part of the state.  Node.clone,          *)
(* clone(nodes), find, filter, append and replace are translated from the  *)
(* source; flat() (models/flattenedNode) and Task.clone() (models/task)    *)
(* follow the specification text.                                          *)
(***************************************************************************)
EXTENDS Integers, Sequences, FiniteSets, TLC

VARIABLES heap,    \* Node objects: heap[a] is the object at address a
          tasks,   \* Task payload objects: tasks[t] is the Task at address t
          root,    \* the externally held tree reference (top node address)
          op,      \* the last operation performed
          recv,    \* the receiver (this) of the last operation
          arg,     \* the node argument of the last operation (0 when none)
          pred,    \* the predicate argument of the last operation
          res,     \* the node returned by the last operation
          pre,     \* the Node heap as it was before the last operation
          preT,    \* the Task heap as it was before the last operation
          exc,     \* how the last operation ended (exception logged / raised)
          steps,   \* number of operations performed so far
          now,     \* the wall clock (Date.now()), in milliseconds
          time,    \* a Time value that is added to
          total,   \* the seconds of all operands that went into time
          item,    \* a TodoItem
          doc,     \* the Task at each line of the document
          trackings,   \* the tracking registry (trackingStateList)
          stored,  \* the record list in the key-value store
          effect,  \* the line whose stopOtherTracking effect is pending
          started, \* per line: when the running session began, and with what
          atLine,  \* the line of the TaskItem whose handler ran last
          preReg,  \* the registry as it was before the last operation
          preDoc,  \* the document as it was before the last operation
          preItem, \* the TodoItem as it was before the last operation
          records, \* the task records in memory (allRecordsState)
          recStore,    \* the task records in the key-value store
          outcome, \* how the store answered the last call
          text,    \* the text made of the tree (nodeToString), line by line
          events,  \* the calendar events of the last import, by their titles
          inputValue,   \* todoListTextState: the todo list text in memory
          savingState,  \* the saved indicator: 1 when shown as saved
          textStore,    \* the text stored under 'todo-list-text'
          pending       \* the values of the Storage.set calls in flight

\* the variables of the outline tree
treeVars == <<heap, tasks, root, recv, arg, pred, res, pre, preT>>

\* the variables of time keeping
timeVars == <<now, time, total, item, doc, trackings, stored, effect, started,
              atLine, preReg, preDoc, preItem>>

\* the variables of the task record storage
saveVars == <<inputValue, savingState, textStore, pending>>

storeVars == <<records, recStore, outcome, text, events, saveVars>>

vars == <<treeVars, op, exc, steps, timeVars, storeVars>>

\* Bounds of the model.
MaxNodes == 3      \* non-root nodes of an initial tree
MaxOps == 2        \* operations in one run

\* undefined / null reference
Null == 0

\* NODE_TYPE
TypeTask == "TASK"
TypeHeading == "HEADING"
TypeOther == "OTHER"
TypeRoot == "ROOT"

\* ------------------------------------------------------------------------
\* Helpers on sequences

RECURSIVE SortedSeq(_)
SortedSeq(S) ==
  IF S = {} THEN <<>>
  ELSE LET m == CHOOSE x \in S : \A y \in S : x <= y
       IN <<m>> \o SortedSeq(S \ {m})

Range(s) == {s[i] : i \in DOMAIN s}

Reverse(s) == [i \in 1..Len(s) |-> s[Len(s) + 1 - i]]

\* ------------------------------------------------------------------------
\* Node constructor: a fresh object with a fresh id, no parent unless given,
\* and no children.  The id (Math.random in the source) is modelled by the
\* object's own address, which is never reused.
NewNode(h, type, line, data, parent) ==
  Append(h, [type |-> type, id |-> Len(h) + 1, line |-> line, data |-> data,
             parent |-> parent, children |-> <<>>, level |-> 0])

\* HeadingNode constructor
NewHeadingNode(h, type, line, data, level, parent) ==
  Append(h, [type |-> type, id |-> Len(h) + 1, line |-> line, data |-> data,
             parent |-> parent, children |-> <<>>, level |-> level])

\* Task.clone(): a fresh Task object carrying the same field values.
TaskClone(t, ta) == Append(t, t[ta])

\* A clone that keeps the id its constructor gave it.
NodeCloneNewId(h, t, a) ==
  LET n == h[a]
      c == Len(h) + 1
      isTask == n.type = TypeTask
      t1 == IF isTask THEN TaskClone(t, n.data) ELSE t
      h0 == IF n.type = TypeHeading
              THEN NewHeadingNode(h, n.type, n.line, n.data, n.level, n.parent)
              ELSE NewNode(h, n.type, n.line, n.data, n.parent)
      h1 == [h0 EXCEPT ![c].children = n.children,
                       ![c].data = IF isTask THEN Len(t1) ELSE n.data]
  IN [h |-> h1, t |-> t1, addr |-> c]

\* Node.clone() / HeadingNode.clone(): a new object with the same type, line,
\* data, parent and id; the children array is copied, the child objects are
\* not; a Task payload is cloned.  Result: [h, t, addr].
NodeClone(h, t, a) ==
  LET n == h[a]
      c == Len(h) + 1
      isTask == n.type = TypeTask
      t1 == IF isTask THEN TaskClone(t, n.data) ELSE t
      h0 == IF n.type = TypeHeading
              THEN NewHeadingNode(h, n.type, n.line, n.data, n.level, n.parent)
              ELSE NewNode(h, n.type, n.line, n.data, n.parent)
      h1 == [h0 EXCEPT ![c].id = n.id,
                       ![c].children = n.children,
                       ![c].data = IF isTask THEN Len(t1) ELSE n.data]
  IN [h |-> h1, t |-> t1, addr |-> c]

\* clone(nodes, parent): deep copy of a list of subtrees; every copy gets
\* `parent` as its parent and recursively cloned children.
\* Result: [h, t, out] with out the addresses of the copies.
RECURSIVE CloneList(_, _, _, _)
CloneList(h, t, nodes, parent) ==
  IF nodes = <<>> THEN [h |-> h, t |-> t, out |-> <<>>]
  ELSE LET \* b = a.clone(); b.parent = parent
           Cloned(s1) == [s1 EXCEPT !.h[s1.addr].parent = parent]
           \* b.children = clone(b.children, b)
           Children(s1) == CloneList(s1.h, s1.t, s1.h[s1.addr].children, s1.addr)
           Adopt(b, s2) == [s2 EXCEPT !.h[b].children = s2.out]
           \* the remaining elements of nodes
           Others(b, s2) == CloneList(s2.h, s2.t, Tail(nodes), parent)
           Result(b, s3) == [s3 EXCEPT !.out = <<b>> \o @]
           Rest(b, s2) == Result(b, Others(b, Adopt(b, s2)))
           Each(s1) == Rest(s1.addr, Children(s1))
       IN Each(Cloned(NodeClone(h, t, Head(nodes))))

\* flat(root): depth-first pre-order list of [node, depth], root excluded,
\* depth 0 for the root's direct children.
RECURSIVE FlatList(_, _, _)
FlatList(h, nodes, depth) ==
  IF nodes = <<>> THEN <<>>
  ELSE <<[node |-> Head(nodes), depth |-> depth]>>
         \o FlatList(h, h[Head(nodes)].children, depth + 1)
         \o FlatList(h, Tail(nodes), depth)

Flat(h, r) == FlatList(h, h[r].children, 0)

\* The breadth-first visiting order of find and filter: the queue is seeded
\* with the start node; each visited node's children are pushed at the back.
RECURSIVE BfsQueue(_, _)
BfsQueue(h, queue) ==
  IF queue = <<>> THEN <<>>
  ELSE <<Head(queue)>> \o BfsQueue(h, Tail(queue) \o h[Head(queue)].children)

Bfs(h, r) == BfsQueue(h, <<r>>)

\* ------------------------------------------------------------------------
\* Predicates.  A Predicate is a function Node -> boolean that may throw; on
\* the nodes of one tree it is given by the ids it accepts (sat) and the ids
\* it throws on (raise).
Holds(P, h, n) == h[n].id \in P.sat
Throws(P, h, n) == h[n].id \in P.raise

\* Faulty variant of FindIn: the children of the visited node are put at the front
\* of the queue, which makes the search depth first.
RECURSIVE FindInDepthFirst(_, _, _)
FindInDepthFirst(h, queue, P) ==
  IF queue = <<>> THEN Null
  ELSE LET elm == Head(queue) IN
       IF Throws(P, h, elm) THEN Null
       ELSE IF Holds(P, h, elm) THEN elm
       ELSE FindInDepthFirst(h, h[elm].children \o Tail(queue), P)

\* A search that goes on after an exception of the predicate.
RECURSIVE FindInPastErrors(_, _, _)
FindInPastErrors(h, queue, P) ==
  IF queue = <<>> THEN Null
  ELSE LET elm == Head(queue) IN
       IF Holds(P, h, elm) /\ ~Throws(P, h, elm) THEN elm
       ELSE FindInPastErrors(h, Tail(queue) \o h[elm].children, P)

\* Node.find: the first node in breadth-first order for which the predicate
\* returns true; an exception of the predicate ends the search with null.
RECURSIVE FindIn(_, _, _)
FindIn(h, queue, P) ==
  IF queue = <<>> THEN Null
  ELSE LET elm == Head(queue) IN
       IF Throws(P, h, elm) THEN Null
       ELSE IF Holds(P, h, elm) THEN elm
       ELSE FindIn(h, Tail(queue) \o h[elm].children, P)

Find(h, r, P) == FindIn(h, <<r>>, P)

\* How a call ends: logged tells that an exception was written to the log,
\* raised that an exception reached the caller.
Normal == [logged |-> FALSE, raised |-> FALSE]

\* Faulty variant of Caught: there is no try block, the exception reaches the
\* caller.
Uncaught(thrown) == [logged |-> FALSE, raised |-> thrown]

\* try { ... } catch (e) { Log.w(e) }: an exception thrown in the try block
\* is logged and goes no further.
Caught(thrown) == [logged |-> thrown, raised |-> FALSE]

\* The loop of Node.find throws when the predicate throws on a node that is
\* visited before any match.
RECURSIVE FindThrows(_, _, _)
FindThrows(h, queue, P) ==
  IF queue = <<>> THEN FALSE
  ELSE LET elm == Head(queue) IN
       IF Throws(P, h, elm) THEN TRUE
       ELSE IF Holds(P, h, elm) THEN FALSE
       ELSE FindThrows(h, Tail(queue) \o h[elm].children, P)

\* how this.find(predicate) ends
FindCompletion(h, r, P) == Caught(FindThrows(h, <<r>>, P))

\* parent.children.filter((c) => c.id !== n.id)
WithoutId(h, children, id) ==
  LET Keep(c) == h[c].id # id IN SelectSeq(children, Keep)

\* The removal loop of Node.filter over the reversed breadth-first list.  A
\* node that fails the predicate and has no children is removed from its
\* parent's children.  The loop is left by an exception when the predicate
\* throws, or when the node to remove has no parent (parent.children of
\* undefined).  Result: [h, thrown].
RECURSIVE RemoveNodes(_, _, _)
RemoveNodes(h, nodes, P) ==
  IF nodes = <<>> THEN [h |-> h, thrown |-> FALSE]
  ELSE LET n == Head(nodes)
           parent == h[n].parent
       IN IF Throws(P, h, n) THEN [h |-> h, thrown |-> TRUE]
          ELSE IF ~Holds(P, h, n) /\ Len(h[n].children) = 0
            THEN IF parent = Null THEN [h |-> h, thrown |-> TRUE]
                 ELSE RemoveNodes(
                        [h EXCEPT ![parent].children = WithoutId(h, @, h[n].id)],
                        Tail(nodes), P)
            ELSE RemoveNodes(h, Tail(nodes), P)

\* Faulty variant of UpdateLines: the index is used as the line number (f.node.line =
\* index), so that numbering starts at 0.
UpdateLinesFromZero(h, flatten) ==
  [a \in DOMAIN h |->
     IF \E i \in DOMAIN flatten : flatten[i].node = a
       THEN [h[a] EXCEPT !.line =
               (CHOOSE i \in DOMAIN flatten :
                 /\ flatten[i].node = a
                 /\ \A j \in DOMAIN flatten : flatten[j].node = a => j <= i) - 1]
       ELSE h[a]]

\* flattenFiltered.forEach((f, index) => f.node.line = index + 1)
UpdateLines(h, flatten) ==
  [a \in DOMAIN h |->
     IF \E i \in DOMAIN flatten : flatten[i].node = a
       THEN [h[a] EXCEPT !.line =
               CHOOSE i \in DOMAIN flatten :
                 /\ flatten[i].node = a
                 /\ \A j \in DOMAIN flatten : flatten[j].node = a => j <= i]
       ELSE h[a]]

\* Faulty variant of FilterCloned: the breadth-first list is not reversed, so that
\* parents are examined before their children.
FilterNotReversed(s, P) ==
  LET cloned == s.out[1]
      Renumbered(removed) ==
        IF removed.thrown THEN removed.h
        ELSE UpdateLines(removed.h, Flat(removed.h, cloned))
      Done(removed) == [h |-> Renumbered(removed), t |-> s.t, res |-> cloned,
                        exc |-> Caught(removed.thrown)]
  IN Done(RemoveNodes(s.h, Bfs(s.h, cloned), P))

\* Node.filter after [cloned] = clone([this]), s being the result of that
\* clone: the nodes of the clone in reversed breadth-first order are
\* removed where due, then the lines are updated unless an exception has
\* ended the try block.
FilterCloned(s, P) ==
  LET cloned == s.out[1]
      Renumbered(removed) ==
        IF removed.thrown THEN removed.h
        ELSE UpdateLines(removed.h, Flat(removed.h, cloned))
      Done(removed) == [h |-> Renumbered(removed), t |-> s.t, res |-> cloned,
                        exc |-> Caught(removed.thrown)]
  IN Done(RemoveNodes(s.h, Reverse(Bfs(s.h, cloned)), P))

\* Node.filter(predicate).  Result: [h, t, res, exc].
Filter(h, t, this, P) == FilterCloned(CloneList(h, t, <<this>>, Null), P)

\* Faulty variant of AppendCloned: the new node gets the flattened length itself as
\* its line (node.line = flatten.length).
AppendLineIsLength(s, this, node) ==
  [h |-> [s.h EXCEPT ![node].line = Len(Flat(s.h, this)),
                     ![node].parent = s.out[1],
                     ![s.out[1]].children = Append(@, node)],
   t |-> s.t, res |-> s.out[1], exc |-> Normal]

\* Node.append after [cloned] = clone([this]): node.line = flat(this).length
\* + 1, node.parent = cloned, cloned.children.push(node).
AppendCloned(s, this, node) ==
  [h |-> [s.h EXCEPT ![node].line = Len(Flat(s.h, this)) + 1,
                     ![node].parent = s.out[1],
                     ![s.out[1]].children = Append(@, node)],
   t |-> s.t, res |-> s.out[1], exc |-> Normal]

\* Node.append(node).  Result: [h, t, res, exc]; append has no try block
\* and no statement that throws for a Node receiver.
AppendNode(h, t, this, node) ==
  AppendCloned(CloneList(h, t, <<this>>, Null), this, node)

\* parent.children.map((n) => n.id === node.id ? node : n)
SubstituteById(h, children, node) ==
  [i \in DOMAIN children |->
     IF h[children[i]].id = h[node].id THEN node ELSE children[i]]

\* Faulty variant of KeepData: the replacement keeps its own line (node.line =
\* target.line is missing).
KeepDataButLine(h, node, target) ==
  [h EXCEPT ![node].id = h[target].id,
            ![node].parent = h[target].parent,
            ![node].children = h[target].children]

\* "keep some data of the node": the replacement takes the id, the line,
\* the parent and the children of the target.
KeepData(h, node, target) ==
  [h EXCEPT ![node].id = h[target].id,
            ![node].line = h[target].line,
            ![node].parent = h[target].parent,
            ![node].children = h[target].children]

\* the parent's children list with the node put in place of the target
Substituted(h, parent, node) ==
  [h EXCEPT ![parent].children = SubstituteById(h, @, node)]

\* Faulty variant of ReplaceTarget: the data of the target is copied to the node
\* before the parent of the target is examined.
ReplaceCopiesBeforeGuard(s, node, target) ==
  IF target = Null THEN [h |-> s.h, t |-> s.t, res |-> s.out[1]]
  ELSE IF s.h[target].parent = Null
    THEN [h |-> KeepData(s.h, node, target), t |-> s.t, res |-> s.out[1]]
  ELSE [h |-> Substituted(KeepData(s.h, node, target), s.h[target].parent, node),
        t |-> s.t, res |-> s.out[1]]

\* Node.replace after the clone and the search: nothing changes when there
\* is no target or the target has no parent.
ReplaceTarget(s, node, target) ==
  IF target = Null THEN [h |-> s.h, t |-> s.t, res |-> s.out[1]]
  ELSE IF s.h[target].parent = Null
    THEN [h |-> s.h, t |-> s.t, res |-> s.out[1]]
  ELSE [h |-> Substituted(KeepData(s.h, node, target), s.h[target].parent, node),
        t |-> s.t, res |-> s.out[1]]

\* a result together with the way the call ended
Ended(r, e) == [h |-> r.h, t |-> r.t, res |-> r.res, exc |-> e]

\* Node.replace after [cloned] = clone([this]): target = cloned.find(predicate);
\* an exception of the predicate is caught inside find, and the two early
\* returns keep the statements that follow from dereferencing null.
ReplaceCloned(s, node, P) ==
  Ended(ReplaceTarget(s, node, Find(s.h, s.out[1], P)),
        FindCompletion(s.h, s.out[1], P))

\* Node.replace(node, predicate).  Result: [h, t, res, exc].
Replace(h, t, this, node, P) ==
  ReplaceCloned(CloneList(h, t, <<this>>, Null), node, P)

\* ------------------------------------------------------------------------
\* Trees as the program sees them

\* Nodes reachable from r through children
Reach(h, r) == Range(Bfs(h, r))

\* Ids of the nodes of the tree at r
Ids(h, r) == {h[a].id : a \in Reach(h, r)}

\* The lines of the tree at r, read in depth-first pre-order, root excluded
Lines(h, r) == [i \in DOMAIN Flat(h, r) |-> h[Flat(h, r)[i].node].line]

\* ------------------------------------------------------------------------
\* Initial trees: what the parser hands over.  Object 1 is the ROOT node,
\* objects 2..n+1 are its descendants in depth-first pre-order, so that
\* line = position in the flattened tree; ids are pairwise distinct and
\* every parent reference points to the node holding the child.

RECURSIVE Chain(_, _)
Chain(par, x) == IF x = 1 THEN {1} ELSE {x} \cup Chain(par, par[x])

PreOrdered(par, n) == \A i \in 2..(n + 1) : par[i] \in Chain(par, i - 1)

Shapes(n) == {par \in [2..(n + 1) -> 1..n] : PreOrdered(par, n)}

RECURSIVE Depth(_, _)
Depth(par, x) == IF x = 1 THEN 0 ELSE 1 + Depth(par, par[x])

\* a top-level node with children is a heading, every other node a task
\* (tasks below a heading, sub-tasks below a task)
InitType(par, n, a) ==
  IF a = 1 THEN TypeRoot
  ELSE IF par[a] = 1 /\ (\E c \in 2..(n + 1) : par[c] = a) THEN TypeHeading
  ELSE TypeTask

\* address of the Task payload of initial node a
InitTaskOf(par, n, a) ==
  Cardinality({b \in 2..a : InitType(par, n, b) = TypeTask})

InitHeap(par, n) ==
  [a \in 1..(n + 1) |->
     [type |-> InitType(par, n, a),
      id |-> a,
      line |-> a - 1,
      data |-> IF InitType(par, n, a) = TypeTask
                 THEN InitTaskOf(par, n, a) ELSE a,
      parent |-> IF a = 1 THEN Null ELSE par[a],
      children |-> SortedSeq({c \in 2..(n + 1) : par[c] = a}),
      level |-> IF InitType(par, n, a) = TypeHeading
                  THEN Depth(par, a) ELSE 0]]

\* Task payloads: title and completion flag
NewTask(t, title) == Append(t, [title |-> title, completion |-> FALSE])

InitTasks(par, n) ==
  [k \in 1..InitTaskOf(par, n, n + 1) |->
     [title |-> CHOOSE a \in 2..(n + 1) :
                  /\ InitType(par, n, a) = TypeTask
                  /\ InitTaskOf(par, n, a) = k,
      completion |-> FALSE]]

NoPredicate == [sat |-> {}, raise |-> {}]

\* nothing is tracked, nothing is stored, the clock is at 0
NoTimeKeeping ==
  /\ now = 0
  /\ time = Null
  /\ total = 0
  /\ item = Null
  /\ doc = <<>>
  /\ trackings = <<>>
  /\ stored = <<>>
  /\ effect = Null
  /\ started = <<>>
  /\ atLine = Null
  /\ preReg = <<>>
  /\ preDoc = <<>>
  /\ preItem = Null

\* the store has no value under the key
NothingStored == [present |-> FALSE, value |-> <<>>]

\* nothing has been loaded or saved yet
NoStore ==
  /\ records = <<>>
  /\ recStore = NothingStored
  /\ outcome = "none"
  /\ text = <<>>
  /\ events = <<>>
  /\ inputValue = 0
  /\ savingState = 0
  /\ textStore = 0
  /\ pending = <<>>

Init ==
  \E n \in 0..MaxNodes : \E par \in Shapes(n) :
    /\ heap = InitHeap(par, n)
    /\ tasks = InitTasks(par, n)
    /\ root = 1
    /\ op = "init"
    /\ recv = Null
    /\ arg = Null
    /\ pred = NoPredicate
    /\ res = Null
    /\ pre = heap
    /\ preT = tasks
    /\ exc = Normal
    /\ steps = 0
    /\ NoTimeKeeping
    /\ NoStore

\* Predicates that return normally on every node of the tree at r
Predicates(h, r) == {[sat |-> S, raise |-> {}] : S \in SUBSET Ids(h, r)}

\* A freshly constructed childless node (a caller's new Node(...)), of type
\* TASK with a new Task payload or of type OTHER.  Result: [h, t, addr].
FreshNode(h, t, type) ==
  IF type = TypeTask
    THEN [h |-> NewNode(h, type, 0, Len(t) + 1, Null),
          t |-> NewTask(t, Len(h) + 1), addr |-> Len(h) + 1]
    ELSE [h |-> NewNode(h, type, 0, Len(h) + 1, Null),
          t |-> t, addr |-> Len(h) + 1]

FreshTypes == {TypeTask, TypeOther}

\* Predicates given to replace: only the first match counts, so predicates
\* accepting at most two nodes show every outcome.
ReplacePredicates(h, r) ==
  {P \in Predicates(h, r) : Cardinality(P.sat) <= 2}

\* appends are tried on trees of at most MaxNodes nodes below the top
MayGrow == Len(Flat(heap, root)) <= MaxNodes

\* root = root.filter(predicate)
DoFilter ==
  /\ steps < MaxOps
  /\ \E P \in Predicates(heap, root) :
       \E r \in {Filter(heap, tasks, root, P)} :
       /\ heap' = r.h
       /\ tasks' = r.t
       /\ root' = r.res
       /\ res' = r.res
       /\ op' = "filter"
       /\ recv' = root
       /\ arg' = Null
       /\ pred' = P
       /\ pre' = heap
       /\ preT' = tasks
       /\ exc' = r.exc
  /\ steps' = steps + 1
  /\ UNCHANGED <<timeVars, storeVars>>

\* root = this.append(node) for a fresh node; this is the root
DoAppend ==
  /\ steps < MaxOps
  /\ MayGrow
  /\ \E type \in FreshTypes :
       \E f \in {FreshNode(heap, tasks, type)} :
       \E r \in {AppendNode(f.h, f.t, root, f.addr)} :
       /\ heap' = r.h
       /\ tasks' = r.t
       /\ root' = r.res
       /\ res' = r.res
       /\ op' = "append"
       /\ recv' = root
       /\ arg' = f.addr
       /\ pred' = NoPredicate
       /\ pre' = f.h
       /\ preT' = f.t
       /\ exc' = r.exc
  /\ steps' = steps + 1
  /\ UNCHANGED <<timeVars, storeVars>>

\* root = this.append(node) for a fresh node; this is a node below the root
DoAppendInner ==
  /\ steps < MaxOps
  /\ MayGrow
  /\ \E this \in Reach(heap, root) \ {root} : \E type \in FreshTypes :
       \E f \in {FreshNode(heap, tasks, type)} :
       \E r \in {AppendNode(f.h, f.t, this, f.addr)} :
       /\ heap' = r.h
       /\ tasks' = r.t
       /\ root' = r.res
       /\ res' = r.res
       /\ op' = "appendInner"
       /\ recv' = this
       /\ arg' = f.addr
       /\ pred' = NoPredicate
       /\ pre' = f.h
       /\ preT' = f.t
       /\ exc' = r.exc
  /\ steps' = steps + 1
  /\ UNCHANGED <<timeVars, storeVars>>

\* root = root.replace(node, predicate) for a fresh node
DoReplace ==
  /\ steps < MaxOps
  /\ \E P \in ReplacePredicates(heap, root) : \E type \in FreshTypes :
       \E f \in {FreshNode(heap, tasks, type)} :
       \E r \in {Replace(f.h, f.t, root, f.addr, P)} :
       /\ heap' = r.h
       /\ tasks' = r.t
       /\ root' = r.res
       /\ res' = r.res
       /\ op' = "replace"
       /\ recv' = root
       /\ arg' = f.addr
       /\ pred' = P
       /\ pre' = f.h
       /\ preT' = f.t
       /\ exc' = r.exc
  /\ steps' = steps + 1
  /\ UNCHANGED <<timeVars, storeVars>>

Next == DoFilter \/ DoAppend \/ DoAppendInner \/ DoReplace

Spec == Init /\ [][Next]_vars

\* ------------------------------------------------------------------------
\* Vocabulary of the properties

\* a node of the tree at r has been kept in the tree at r2 (by id)
Retained(h, id, h2, r2) == id \in Ids(h2, r2)

\* the proper descendants of x
Descendants(h, x) == Reach(h, x) \ {x}

\* lines 1, 2, ..., n
Contiguous(lines) == \A i \in DOMAIN lines : lines[i] = i

DoAppendAliased ==
  /\ steps < MaxOps
  /\ MayGrow
  /\ \E id \in Ids(heap, root) \ {heap[root].id} :
       \E node \in {Find(heap, root, [sat |-> {id}, raise |-> {}])} :
       \E r \in {AppendNode(heap, tasks, root, node)} :
       /\ heap' = r.h
       /\ tasks' = r.t
       /\ root' = r.res
       /\ res' = r.res
       /\ op' = "appendAliased"
       /\ recv' = root
       /\ arg' = node
       /\ pred' = NoPredicate
       /\ pre' = heap
       /\ preT' = tasks
       /\ exc' = r.exc
  /\ steps' = steps + 1
  /\ UNCHANGED <<timeVars, storeVars>>

\* root = root.replace(root.find(n => n.id === id), predicate)
DoReplaceAliased ==
  /\ steps < MaxOps
  /\ \E id \in Ids(heap, root) \ {heap[root].id} :
     \E P \in ReplacePredicates(heap, root) :
       \E node \in {Find(heap, root, [sat |-> {id}, raise |-> {}])} :
       \E r \in {Replace(heap, tasks, root, node, P)} :
       /\ heap' = r.h
       /\ tasks' = r.t
       /\ root' = r.res
       /\ res' = r.res
       /\ op' = "replaceAliased"
       /\ recv' = root
       /\ arg' = node
       /\ pred' = P
       /\ pre' = heap
       /\ preT' = tasks
       /\ exc' = r.exc
  /\ steps' = steps + 1
  /\ UNCHANGED <<timeVars, storeVars>>

NextAlias ==
  \/ DoFilter \/ DoAppend \/ DoAppendInner \/ DoReplace
  \/ DoAppendAliased \/ DoReplaceAliased

SpecAlias == Init /\ [][NextAlias]_vars

\* every node reachable from the receiver is as it was before the call
ReceiverUntouched ==
  \A a \in Reach(pre, recv) :
    /\ heap[a] = pre[a]
    /\ pre[a].type = TypeTask => tasks[pre[a].data] = preT[pre[a].data]

\* C3: append, replace and filter are copy-on-write: after the call every
\* node reachable from the receiver has the same id, line, data, parent and
\* children as before the call, for any node argument, a node of the
\* receiver included.
C3_CopyOnWrite == op # "init" => ReceiverUntouched

\* ------------------------------------------------------------------------
\* Cloning, and a caller that changes the copy afterwards (as startTracking
\* and toggleItemCompletion do with the Task of node.clone()).

\* res = n.clone() for a node n of the tree
DoClone ==
  /\ steps < MaxOps
  /\ \E n \in Reach(heap, root) :
       \E r \in {NodeClone(heap, tasks, n)} :
       /\ heap' = r.h
       /\ tasks' = r.t
       /\ res' = r.addr
       /\ recv' = n
  /\ op' = "clone"
  /\ pre' = heap
  /\ preT' = tasks
  /\ exc' = Normal
  /\ steps' = steps + 1
  /\ UNCHANGED <<root, arg, pred>>
  /\ UNCHANGED <<timeVars, storeVars>>

\* [res] = clone([n]) for a node n of the tree
DoCloneTree ==
  /\ steps < MaxOps
  /\ \E n \in Reach(heap, root) :
       \E r \in {CloneList(heap, tasks, <<n>>, Null)} :
       /\ heap' = r.h
       /\ tasks' = r.t
       /\ res' = r.out[1]
       /\ recv' = n
  /\ op' = "cloneTree"
  /\ pre' = heap
  /\ preT' = tasks
  /\ exc' = Normal
  /\ steps' = steps + 1
  /\ UNCHANGED <<root, arg, pred>>
  /\ UNCHANGED <<timeVars, storeVars>>

\* The caller writes a field of the copy or of a node reachable from it:
\* the line, the children list, or the payload (the Task's completion flag
\* for a TASK node, the text otherwise).
WriteField(h, t, x, field) ==
  IF field = "line" THEN [h |-> [h EXCEPT ![x].line = @ + 1], t |-> t]
  ELSE IF field = "children" THEN [h |-> [h EXCEPT ![x].children = <<>>], t |-> t]
  ELSE IF h[x].type = TypeTask
    THEN [h |-> h, t |-> [t EXCEPT ![h[x].data].completion = ~@]]
    ELSE [h |-> [h EXCEPT ![x].data = 0], t |-> t]

DoMutate ==
  /\ op \in {"clone", "cloneTree"}
  /\ \E x \in Reach(heap, res) : \E field \in {"line", "children", "data"} :
       \E r \in {WriteField(heap, tasks, x, field)} :
       /\ heap' = r.h
       /\ tasks' = r.t
  /\ op' = "mutate"
  /\ UNCHANGED <<root, recv, arg, pred, res, pre, preT, exc, steps>>
  /\ UNCHANGED <<timeVars, storeVars>>

NextClone == DoClone \/ DoCloneTree \/ DoMutate

SpecClone == Init /\ [][NextClone]_vars

\* C4: clone() is deep: changing a field of the copy or of a node reachable
\* from it leaves the original node and its descendants unchanged, and no
\* Node object reachable from the copy is reachable from the original.
C4_CloneIsDeep ==
  op \in {"clone", "cloneTree", "mutate"} =>
    /\ ReceiverUntouched
    /\ Reach(heap, res) \cap Reach(pre, recv) = {}

\* C5: after a clone, every node x of the copy other than its top node has
\* as parent the node of the copy whose children contains x, never a node of
\* the original.
C5_CloneParentsRebuilt ==
  op \in {"clone", "cloneTree"} =>
    \A x \in Reach(heap, res) \ {res} :
      /\ heap[x].parent \in Reach(heap, res)
      /\ heap[x].parent \notin Reach(pre, recv)
      /\ x \in Range(heap[heap[x].parent].children)

\* ------------------------------------------------------------------------
\* More vocabulary: what a tree looks like, whatever the objects it is made of

\* the payload of a node as a value
Payload(h, t, a) == IF h[a].type = TypeTask THEN t[h[a].data] ELSE h[a].data

Look(h, t, a, depth) ==
  [id |-> h[a].id, line |-> h[a].line, type |-> h[a].type,
   level |-> h[a].level, payload |-> Payload(h, t, a), depth |-> depth]

\* the tree at r in depth-first pre-order: one entry per node, top excluded
Outline(h, t, r) ==
  [i \in DOMAIN Flat(h, r) |-> Look(h, t, Flat(h, r)[i].node, Flat(h, r)[i].depth)]

\* the node of the tree at r whose children contains x
Holder(h, r, x) == CHOOSE p \in Reach(h, r) : x \in Range(h[p].children)

\* ids of a list of nodes
IdsOf(h, nodes) == [i \in DOMAIN nodes |-> h[nodes[i]].id]

\* every non-root node's parent is the node whose children contains it
ParentChildConsistent(h, r) ==
  \A x \in Reach(h, r) \ {r} :
    /\ h[x].parent # Null
    /\ h[x].parent \in Reach(h, r)
    /\ x \in Range(h[h[x].parent].children)

\* ------------------------------------------------------------------------
\* C6: the tree returned by any sequence of append, replace and filter calls
\* on a parent/child consistent tree is parent/child consistent, also for the
\* children inherited by a replacement node.
C6_ParentChildConsistent == ParentChildConsistent(heap, root)

\* C7: after any sequence of append and replace calls with fresh childless
\* nodes, append called on the root or on an inner node, the lines read in
\* depth-first pre-order are 1, 2, ..., n.
C7_AppendReplaceLinesContiguous ==
  op \in {"init", "append", "appendInner", "replace"}
    => Contiguous(Lines(heap, root))

\* C8 (as claimed): append(node) on a receiver of flattened length k returns
\* a tree whose top node has node as its last child, node.line = k + 1, and
\* node.parent is the node append was called on.
C8_Original ==
  op \in {"append", "appendInner"} =>
    /\ Len(heap[res].children) > 0
    /\ heap[res].children[Len(heap[res].children)] = arg
    /\ heap[arg].line = Len(Flat(pre, recv)) + 1
    /\ heap[arg].parent = recv

\* C8 (amended): append(node) on a receiver of flattened length k returns a
\* tree whose top node has node as its last child, node.line = k + 1, and
\* node.parent is the returned top node, a new object that is the copy of
\* the node append was called on (same id), not that node itself.
C8_AppendLastChild ==
  op \in {"append", "appendInner"} =>
    /\ Len(heap[res].children) > 0
    /\ heap[res].children[Len(heap[res].children)] = arg
    /\ heap[arg].line = Len(Flat(pre, recv)) + 1
    /\ heap[arg].parent = res
    /\ res \notin DOMAIN pre
    /\ heap[res].id = pre[recv].id

\* C8 witness: append on a tree with 3 flattened lines gave the node line 4
C8_Witness ==
  /\ op = "append"
  /\ Len(Flat(pre, recv)) = 3
  /\ heap[arg].line = 4
  /\ heap[arg].parent = res

\* the first match of the last replace call, in the receiver
Matched == Find(pre, recv, pred)

\* position of node x in the flattened tree at r
PositionOf(h, r, x) == CHOOSE i \in DOMAIN Flat(h, r) : Flat(h, r)[i].node = x

\* C9: replace(newNode, predicate) with a non-root match m returns a tree in
\* which newNode sits at m's position with m's id, line and children; the
\* children of m's parent keep their number and the order of the other
\* siblings; exactly one node is substituted.
C9_ReplaceInPlace ==
  (op = "replace" /\ Matched # Null /\ Matched # recv) =>
    LET m == Matched
        i == PositionOf(pre, recv, m)
        p == Holder(pre, recv, m)
        q == Holder(heap, res, arg)
    IN /\ Len(Flat(heap, res)) = Len(Flat(pre, recv))
       /\ Flat(heap, res)[i].node = arg
       /\ Flat(heap, res)[i].depth = Flat(pre, recv)[i].depth
       /\ heap[arg].id = pre[m].id
       /\ heap[arg].line = pre[m].line
       /\ IdsOf(heap, heap[arg].children) = IdsOf(pre, pre[m].children)
       /\ heap[q].id = pre[p].id
       /\ IdsOf(heap, heap[q].children) = IdsOf(pre, pre[p].children)
       /\ \A j \in DOMAIN Flat(heap, res) : j # i =>
            /\ Flat(heap, res)[j].node # arg
            /\ Flat(heap, res)[j].node \notin DOMAIN pre
            /\ Outline(heap, tasks, res)[j] = Outline(pre, preT, recv)[j]

\* C9 witness: a node with a child and with a sibling on either side has
\* been replaced
C9_Witness ==
  /\ op = "replace"
  /\ Matched # Null
  /\ Matched # recv
  /\ Len(pre[Matched].children) > 0
  /\ Len(pre[Holder(pre, recv, Matched)].children) > 1
  /\ arg \in Reach(heap, res)

\* C10: replace returns a structurally unmodified clone of the receiver when
\* no node satisfies the predicate or the first match is the tree root, and
\* then leaves the node argument unchanged.
C10_ReplaceNoTarget ==
  (op = "replace" /\ (Matched = Null \/ Matched = recv)) =>
    /\ res \notin DOMAIN pre
    /\ Look(heap, tasks, res, 0) = Look(pre, preT, recv, 0)
    /\ Outline(heap, tasks, res) = Outline(pre, preT, recv)
    /\ arg \notin Reach(heap, res)
    /\ heap[arg] = pre[arg]
    /\ Payload(heap, tasks, arg) = Payload(pre, preT, arg)

\* C10 witness: the predicate matched the root of a tree that has nodes
C10_Witness ==
  /\ op = "replace"
  /\ Matched = recv
  /\ Len(Flat(pre, recv)) > 0
  /\ heap[arg] = pre[arg]

\* ------------------------------------------------------------------------
\* Searching, and predicates that throw

\* Predicates on the tree at r, throwing ones included: the predicate
\* returns true on the ids in sat, throws on the ids in raise and returns
\* false on every other node.  The first match and the first exception
\* decide what happens, so two accepted ids and one throwing id are enough.
ThrowingPredicates(h, r) ==
  {P \in [sat : SUBSET Ids(h, r), raise : SUBSET Ids(h, r)] :
     /\ P.sat \cap P.raise = {}
     /\ Cardinality(P.sat) <= 2
     /\ Cardinality(P.raise) <= 1}

\* The tree is as the parser built it, possibly grown by appends of fresh
\* nodes to the root: a well-formed tree.
AsBuilt == op \in {"init", "append"}

\* node = this.find(predicate), as getItem does; the tree is not changed
DoFind ==
  /\ steps < MaxOps
  /\ AsBuilt
  /\ \E this \in Reach(heap, root) : \E P \in ThrowingPredicates(heap, root) :
       /\ res' = Find(heap, this, P)
       /\ exc' = FindCompletion(heap, this, P)
       /\ recv' = this
       /\ pred' = P
  /\ op' = "find"
  /\ arg' = Null
  /\ pre' = heap
  /\ preT' = tasks
  /\ steps' = steps + 1
  /\ UNCHANGED <<heap, tasks, root>>
  /\ UNCHANGED <<timeVars, storeVars>>

\* root = root.filter(predicate) for a predicate that may throw
DoFilterThrowing ==
  /\ steps < MaxOps
  /\ AsBuilt
  /\ \E P \in ThrowingPredicates(heap, root) :
       \E r \in {Filter(heap, tasks, root, P)} :
       /\ heap' = r.h
       /\ tasks' = r.t
       /\ root' = r.res
       /\ res' = r.res
       /\ op' = "filter"
       /\ recv' = root
       /\ arg' = Null
       /\ pred' = P
       /\ pre' = heap
       /\ preT' = tasks
       /\ exc' = r.exc
  /\ steps' = steps + 1
  /\ UNCHANGED <<timeVars, storeVars>>

\* root = root.replace(node, predicate) for a fresh node and a predicate
\* that may throw
DoReplaceThrowing ==
  /\ steps < MaxOps
  /\ AsBuilt
  /\ \E P \in ThrowingPredicates(heap, root) :
       \E f \in {FreshNode(heap, tasks, TypeTask)} :
       \E r \in {Replace(f.h, f.t, root, f.addr, P)} :
       /\ heap' = r.h
       /\ tasks' = r.t
       /\ root' = r.res
       /\ res' = r.res
       /\ op' = "replace"
       /\ recv' = root
       /\ arg' = f.addr
       /\ pred' = P
       /\ pre' = f.h
       /\ preT' = f.t
       /\ exc' = r.exc
  /\ steps' = steps + 1
  /\ UNCHANGED <<timeVars, storeVars>>

NextFind == DoFind \/ DoFilterThrowing \/ DoReplaceThrowing \/ DoAppend

SpecFind == Init /\ [][NextFind]_vars

\* the tree at r in depth-first pre-order with its top node, at depth 0
WithTop(h, r) == FlatList(h, <<r>>, 0)

\* depth of node x below r, and its position in pre-order
DepthOf(h, r, x) == (CHOOSE e \in Range(WithTop(h, r)) : e.node = x).depth
PreOrderOf(h, r, x) == CHOOSE i \in DOMAIN WithTop(h, r) : WithTop(h, r)[i].node = x

\* x comes before y level by level, and left to right within one level
LevelBefore(h, r, x, y) ==
  \/ DepthOf(h, r, x) < DepthOf(h, r, y)
  \/ /\ DepthOf(h, r, x) = DepthOf(h, r, y)
     /\ PreOrderOf(h, r, x) < PreOrderOf(h, r, y)

\* the nodes below and including r on which the predicate returns true
Satisfying(h, r, P) == {x \in Reach(h, r) : Holds(P, h, x)}

\* C11: for a predicate that returns normally on every node, find returns
\* the node satisfying the predicate that comes first level by level and
\* left to right, the receiver itself first; it returns null when no node
\* satisfies the predicate; the node returned is an object of the receiver's
\* tree, and the tree is left as it was.
C11_FindFirstBreadthFirst ==
  (op = "find" /\ pred.raise = {}) =>
    /\ heap = pre
    /\ Satisfying(pre, recv, pred) = {} => res = Null
    /\ Satisfying(pre, recv, pred) # {} =>
         /\ res \in Satisfying(pre, recv, pred)
         /\ \A y \in Satisfying(pre, recv, pred) \ {res} :
              LevelBefore(pre, recv, res, y)

\* C11 witness: find returned a node of the second level although a node
\* of the third level, which comes earlier in pre-order, satisfies the
\* predicate too
C11_Witness ==
  /\ op = "find"
  /\ pred.raise = {}
  /\ res # Null
  /\ \E y \in Satisfying(pre, recv, pred) :
       /\ DepthOf(pre, recv, y) > DepthOf(pre, recv, res)
       /\ PreOrderOf(pre, recv, y) < PreOrderOf(pre, recv, res)

\* C12: on a well-formed tree find, filter, append and replace return
\* normally, whatever the predicate does: no exception reaches the caller;
\* an exception of the predicate met by find or filter is logged; a filter
\* whose predicate returns false on every node, the childless root at last
\* included, logs the failure to remove the root and returns the bare root.
C12_NeverRaises ==
  op # "init" =>
    /\ ~exc.raised
    /\ res \in DOMAIN heap \cup {Null}
    /\ (op = "find" /\ Throws(pred, pre, recv)) => exc.logged
    /\ (op = "filter" /\ pred.raise \cap Ids(pre, recv) # {}) =>
         (exc.logged /\ res # Null /\ heap[res].id = pre[recv].id)
    /\ (op = "filter" /\ pred.raise = {} /\ Satisfying(pre, recv, pred) = {}) =>
         (exc.logged /\ res # Null /\ heap[res].children = <<>>)

\* C12 witness: a filter whose predicate threw on a node of a tree with
\* nodes below the root returned the clone and logged the exception
C12_Witness ==
  /\ op = "filter"
  /\ pred.raise \cap Ids(pre, recv) # {}
  /\ Len(Flat(pre, recv)) > 1
  /\ exc.logged
  /\ ~exc.raised
  /\ res # Null

\* ------------------------------------------------------------------------
\* Time (models/time): a span of seconds, minutes, hours and days

MsPerMinute == 60000

\* new Time(seconds, minutes, hours, days): the four components as given
NewTime(seconds, minutes, hours, days) ==
  [seconds |-> seconds, minutes |-> minutes, hours |-> hours, days |-> days]

\* new Time(): the zero span
EmptyTime == NewTime(0, 0, 0, 0)

\* Faulty variant of CarryUp: an overflowing component carries exactly one
\* unit into the next one.
CarryUpOnce(t) ==
  LET s == IF t.seconds >= 60 THEN t.seconds - 60 ELSE t.seconds
      m0 == t.minutes + (IF t.seconds >= 60 THEN 1 ELSE 0)
      m == IF m0 >= 60 THEN m0 - 60 ELSE m0
      h0 == t.hours + (IF m0 >= 60 THEN 1 ELSE 0)
      h == IF h0 >= 24 THEN h0 - 24 ELSE h0
      d == t.days + (IF h0 >= 24 THEN 1 ELSE 0)
  IN NewTime(s, m, h, d)

\* The carry: seconds of 60 and more go into minutes, minutes of 60 and more
\* into hours, hours of 24 and more into days.
CarryUp(t) ==
  LET m == t.minutes + (t.seconds \div 60)
      h == t.hours + (m \div 60)
  IN NewTime(t.seconds % 60, m % 60, h % 24, t.days + (h \div 24))

\* a.add(b): component-wise addition, then the carry
TimeAdd(a, b) ==
  CarryUp(NewTime(a.seconds + b.seconds, a.minutes + b.minutes,
                  a.hours + b.hours, a.days + b.days))

\* Time.parseMs(ms): whole minutes, what is left of a minute is dropped
ParseMs(ms) == CarryUp(NewTime(0, ms \div MsPerMinute, 0, 0))

\* A time string "(\d+d)?(\d+h)?(\d+m)?" is given by its groups in the order
\* they stand in the text, each group a number and a unit letter.
TimeStrings ==
  {<<>>, <<[n |-> 90, unit |-> "m"]>>,
   <<[n |-> 1, unit |-> "d"], [n |-> 2, unit |-> "h"], [n |-> 3, unit |-> "m"]>>,
   <<[n |-> 30, unit |-> "h"]>>,
   <<[n |-> 2, unit |-> "d"], [n |-> 59, unit |-> "m"]>>}

\* the number of the group with the given unit letter, 0 when it is absent
GroupOf(str, unit) ==
  IF \E i \in DOMAIN str : str[i].unit = unit
    THEN (CHOOSE g \in Range(str) : g.unit = unit).n
    ELSE 0

\* Time.parseStr(str): days, hours and minutes from the groups; a string
\* without any group gives the zero span
ParseStr(str) ==
  NewTime(0, GroupOf(str, "m"), GroupOf(str, "h"), GroupOf(str, "d"))

\* t.toMinutes(): the span in whole minutes, seconds dropped
ToMinutes(t) == t.days * 24 * 60 + t.hours * 60 + t.minutes

\* t.isEmpty()
IsEmpty(t) == t.seconds = 0 /\ t.minutes = 0 /\ t.hours = 0 /\ t.days = 0

\* the span in seconds
ToSeconds(t) == ToMinutes(t) * 60 + t.seconds

\* ------------------------------------------------------------------------
\* Task (models/task) as TaskItem uses it

TaskStop == "STOP"
TaskRunning == "RUNNING"

\* task.trackingStart(): the task runs from now on; the start time is
\* returned to the caller
TaskTrackingStart(task, clock) ==
  [task EXCEPT !.taskState = TaskRunning, !.trackingStartTime = clock]

\* task.trackingStop(trackingStartTime): the time since the given start is
\* added to the actual time, the task is stopped
TaskTrackingStop(task, trackingStartTime, clock) ==
  [task EXCEPT !.actualTimes = TimeAdd(@, ParseMs(clock - trackingStartTime)),
               !.taskState = TaskStop,
               !.trackingStartTime = 0]

\* task.setComplete(checked)
TaskSetComplete(task, checked) == [task EXCEPT !.completion = checked]

\* task.isRunning()
TaskIsRunning(task) == task.taskState = TaskRunning

\* ------------------------------------------------------------------------
\* The tracking registry and the handlers of TaskItem

NumLines == 2       \* lines of the document, each one a task
MaxClock == 3       \* the clock runs for this many half minutes
MaxEvents == 4      \* user events and reloads in one run

DocLines == 1..NumLines

\* the clock moves in half minutes, from the first one to the last one
HalfMinute == MsPerMinute \div 2
FirstClock == HalfMinute
LastClock == (MaxClock + 1) * HalfMinute

\* const tracking = trackings.find((n) => n.line === line): the first
\* record of the line, if there is one
HasTracking(reg, l) == \E i \in DOMAIN reg : reg[i].line = l

TrackingOf(reg, l) ==
  reg[CHOOSE i \in DOMAIN reg :
        /\ reg[i].line = l
        /\ \A j \in DOMAIN reg : reg[j].line = l => i <= j]

\* isTracking(): false without a record, else the record's flag
IsTracking(reg, l) == HasTracking(reg, l) /\ TrackingOf(reg, l).isTracking

\* addTracking(tracking): setTrackings([...trackings, newTracking])
AddTracking(reg, tracking) == Append(reg, tracking)

\* Faulty variant of RemoveTracking: the record added last is dropped,
\* whatever its line (trackings.slice(0, -1)).
RemoveLastTracking(reg, l) == SubSeq(reg, 1, Len(reg) - 1)

\* removeTracking(line): trackings.filter((n) => n.line !== line)
RemoveTracking(reg, l) ==
  LET Other(n) == n.line # l IN SelectSeq(reg, Other)

\* stopOtherTracking(line), the registry: the records of the other running
\* sessions are removed
StopOtherRecords(reg, l) ==
  LET Stays(n) == ~(n.isTracking /\ n.line # l) IN SelectSeq(reg, Stays)

\* stopOtherTracking(line), the document: the tasks of the other running
\* sessions are stopped with the start time of their record
StopOtherTasks(d, reg, l, clock) ==
  [k \in DOMAIN d |->
     IF k # l /\ IsTracking(reg, k)
       THEN TaskTrackingStop(d[k], TrackingOf(reg, k).trackingStartTime, clock)
       ELSE d[k]]

\* A stored form that keeps no seconds.
TimeObjectWithoutSeconds(t) ==
  [_seconds |-> 0, _minutes |-> t.minutes,
   _hours |-> t.hours, _days |-> t.days]

\* A Time instance as it lies in the store: a plain object with the fields
\* _seconds, _minutes, _hours and _days (TimeObject).
TimeObject(t) ==
  [_seconds |-> t.seconds, _minutes |-> t.minutes,
   _hours |-> t.hours, _days |-> t.days]

\* onSet: Storage.set(STORAGE_KEY.TRACKING_STATE, state)
SaveTrackings(reg) ==
  [i \in DOMAIN reg |-> [reg[i] EXCEPT !.elapsedTime = TimeObject(@)]]

\* A selector that resumes every record, tracking or not.
RehydrateAlways(tracking, clock) ==
  LET obj == tracking.elapsedTime
      elapsedTime == NewTime(obj._seconds, obj._minutes, obj._hours, obj._days)
  IN [tracking EXCEPT !.elapsedTime =
        TimeAdd(elapsedTime, ParseMs(clock - tracking.trackingStartTime))]

\* The selector of trackingStateList: the stored objects are made Time
\* instances again, and a record that is tracking gets the time since its
\* start added to its elapsed time.
Rehydrate(tracking, clock) ==
  LET obj == tracking.elapsedTime
      elapsedTime == NewTime(obj._seconds, obj._minutes, obj._hours, obj._days)
  IN [tracking EXCEPT !.elapsedTime =
        IF tracking.isTracking
          THEN TimeAdd(elapsedTime, ParseMs(clock - tracking.trackingStartTime))
          ELSE elapsedTime]

LoadTrackings(store, clock) ==
  [i \in DOMAIN store |-> Rehydrate(store[i], clock)]

\* the task of one line as the parser builds it from the stored text: the
\* title, the completion mark and the times are in the text, the running
\* state is not
ParsedTask(task) == [task EXCEPT !.taskState = TaskStop, !.trackingStartTime = 0]

ParsedDoc(d) == [k \in DOMAIN d |-> ParsedTask(d[k])]

\* the document at the first load: line 1 has 59 minutes of actual time
FirstDoc ==
  [k \in DocLines |->
     [title |-> k, completion |-> FALSE, taskState |-> TaskStop,
      trackingStartTime |-> 0,
      actualTimes |-> IF k = 1 THEN NewTime(0, 59, 0, 0) ELSE EmptyTime]]

\* no session has been started on the line
NoSession == [on |-> FALSE, t0 |-> 0, base |-> EmptyTime, title |-> 0]

InitTrack ==
  /\ heap = InitHeap(<<>>, 0)
  /\ tasks = <<>>
  /\ root = 1
  /\ op = "init"
  /\ recv = Null
  /\ arg = Null
  /\ pred = NoPredicate
  /\ res = Null
  /\ pre = heap
  /\ preT = tasks
  /\ exc = Normal
  /\ steps = 0
  /\ now = FirstClock
  /\ time = Null
  /\ total = 0
  /\ item = Null
  /\ doc = FirstDoc
  /\ stored = <<>>
  /\ trackings = LoadTrackings(stored, now)
  /\ effect = Null
  /\ started = [k \in DocLines |-> NoSession]
  /\ atLine = Null
  /\ preReg = trackings
  /\ preDoc = doc
  /\ preItem = Null
  /\ NoStore

\* what the handlers of time keeping leave alone
NotTracking == <<treeVars, exc, time, total, item, preItem, storeVars>>

\* the part every handler of TaskItem has in common: which handler ran, for
\* which line, and what the registry and the document were before
Handled(name, l) ==
  /\ op' = name
  /\ atLine' = l
  /\ preReg' = trackings
  /\ preDoc' = doc
  /\ UNCHANGED <<now, NotTracking>>

\* startTracking of the TaskItem at line l, whose start control is shown
\* while the line is not tracked.  The task of the cloned node is started,
\* the new record is added to the registry, which is saved by its onSet
\* effect, the node is put back; the item now renders a running task, so
\* that its effect (stopOtherTracking) is due.
StartTracking(l) ==
  /\ effect = Null
  /\ steps < MaxEvents
  /\ ~IsTracking(trackings, l)
  /\ \E newTask \in {TaskTrackingStart(doc[l], now)} :
       /\ trackings' = AddTracking(trackings,
                         [line |-> l, isTracking |-> TRUE,
                          trackingStartTime |-> now,
                          elapsedTime |-> newTask.actualTimes])
       /\ doc' = [doc EXCEPT ![l] = newTask]
  /\ stored' = SaveTrackings(trackings')
  /\ effect' = l
  /\ started' = [started EXCEPT ![l] =
                   [on |-> TRUE, t0 |-> now, base |-> doc[l].actualTimes,
                    title |-> doc[l].title]]
  /\ steps' = steps + 1
  /\ Handled("startTracking", l)

DoStartTracking == \E l \in DocLines : StartTracking(l)

\* startTracking of the earlier TaskItem, which has no effect that stops
\* the other sessions: the task is started and the record is added
StartTrackingEarlier(l) ==
  /\ effect = Null
  /\ steps < MaxEvents
  /\ ~IsTracking(trackings, l)
  /\ \E newTask \in {TaskTrackingStart(doc[l], now)} :
       /\ trackings' = AddTracking(trackings,
                         [line |-> l, isTracking |-> TRUE,
                          trackingStartTime |-> now,
                          elapsedTime |-> newTask.actualTimes])
       /\ doc' = [doc EXCEPT ![l] = newTask]
  /\ stored' = SaveTrackings(trackings')
  /\ UNCHANGED effect
  /\ started' = [started EXCEPT ![l] =
                   [on |-> TRUE, t0 |-> now, base |-> doc[l].actualTimes,
                    title |-> doc[l].title]]
  /\ steps' = steps + 1
  /\ Handled("startTracking", l)

DoStartTrackingEarlier == \E l \in DocLines : StartTrackingEarlier(l)

\* useEffect(() => { if (isRunning) stopOtherTracking(line) }): runs after
\* the render that followed the start
DoStopOtherTracking ==
  /\ effect # Null
  /\ trackings' = StopOtherRecords(trackings, effect)
  /\ doc' = StopOtherTasks(doc, trackings, effect, now)
  /\ stored' = SaveTrackings(trackings')
  /\ effect' = Null
  /\ UNCHANGED started
  /\ UNCHANGED steps
  /\ Handled("stopOtherTracking", effect)

\* stopTracking of the TaskItem at line l
StopTracking(l) ==
  /\ effect = Null
  /\ steps < MaxEvents
  /\ IF IsTracking(trackings, l)
       THEN /\ trackings' = RemoveTracking(trackings, l)
            /\ stored' = SaveTrackings(trackings')
            /\ doc' = [doc EXCEPT ![l] =
                 TaskTrackingStop(@, TrackingOf(trackings, l).trackingStartTime, now)]
       ELSE UNCHANGED <<trackings, stored, doc>>
  /\ UNCHANGED <<effect, started>>
  /\ steps' = steps + 1
  /\ Handled("stopTracking", l)

DoStopTracking == \E l \in DocLines : StopTracking(l)

\* the task of line l after toggleItemCompletion: stopped first when the
\* line is tracked, then marked
Toggled(task, reg, l, clock) ==
  TaskSetComplete(
    IF IsTracking(reg, l)
      THEN TaskTrackingStop(task, TrackingOf(reg, l).trackingStartTime, clock)
      ELSE task,
    ~task.completion)

\* toggleItemCompletion of the TaskItem at line l
ToggleItemCompletion(l) ==
  /\ effect = Null
  /\ steps < MaxEvents
  /\ IF IsTracking(trackings, l)
       THEN /\ trackings' = RemoveTracking(trackings, l)
            /\ stored' = SaveTrackings(trackings')
       ELSE UNCHANGED <<trackings, stored>>
  /\ doc' = [doc EXCEPT ![l] = Toggled(@, trackings, l, now)]
  /\ UNCHANGED <<effect, started>>
  /\ steps' = steps + 1
  /\ Handled("toggleItemCompletion", l)

DoToggleItemCompletion == \E l \in DocLines : ToggleItemCompletion(l)

\* The process is closed and opened again: the registry is loaded from the
\* store, the document is parsed from the stored text.
DoReload ==
  /\ effect = Null
  /\ steps < MaxEvents
  /\ trackings' = LoadTrackings(stored, now)
  /\ doc' = ParsedDoc(doc)
  /\ UNCHANGED <<stored, effect, started>>
  /\ steps' = steps + 1
  /\ Handled("reload", Null)

\* half a minute passes
DoTick ==
  /\ now < LastClock
  /\ now' = now + HalfMinute
  /\ op' = "tick"
  /\ UNCHANGED <<doc, trackings, stored, effect, started, atLine, preReg, preDoc>>
  /\ UNCHANGED steps
  /\ UNCHANGED NotTracking

NextTrack ==
  \/ DoStartTracking \/ DoStartTrackingEarlier
  \/ DoStopOtherTracking \/ DoStopTracking
  \/ DoToggleItemCompletion \/ DoReload \/ DoTick

SpecTrack == InitTrack /\ [][NextTrack]_vars

\* the records of sessions that are running
TrackedRecords(reg) == {i \in DOMAIN reg : reg[i].isTracking}

\* C13: at most one task is tracked at a time: in every state of the
\* registry at most one record has isTracking = true, and when a line is
\* started while another line is tracked the other session has been stopped
\* by the time the new record is in the registry.
C13_SingleTracking == Cardinality(TrackedRecords(trackings)) <= 1

\* ------------------------------------------------------------------------
\* TodoItem (models/todoItem)

TodoStop == "STOP"
TodoRunning == "RUNNING"
TodoComplete == "COMPLETE"

\* the value of a field that has never been assigned
Undefined == [undefined |-> TRUE]

\* new TodoItem(title, time): the state is STOP, the start time 0, the
\* estimated time as given; actualTimes is declared but not assigned
NewTodoItem(title, estimated) ==
  [title |-> title, todoState |-> TodoStop, trackingStartTime |-> 0,
   estimatedTimes |-> estimated, actualTimes |-> Undefined]

\* item.trackingStart()
TodoTrackingStart(it, clock) ==
  [it EXCEPT !.trackingStartTime = clock, !.todoState = TodoRunning]

\* item.trackingEnd() throws a TypeError at this.actualTimes.add(...) when
\* actualTimes is undefined
TodoTrackingEndThrows(it) == it.actualTimes = Undefined

\* item.trackingEnd(): the time since the start is added to actualTimes,
\* the state is STOP, the start time 0; nothing is assigned when the call
\* to add throws
TodoTrackingEnd(it, clock) ==
  IF TodoTrackingEndThrows(it) THEN it
  ELSE [it EXCEPT !.actualTimes = TimeAdd(@, ParseMs(clock - it.trackingStartTime)),
                  !.todoState = TodoStop,
                  !.trackingStartTime = 0]

\* item.complete()
TodoCompleted(it) == [it EXCEPT !.todoState = TodoComplete]

\* TodoItem.parse(todoStr): an item with the title and the estimated time
\* of the text
InitTodo ==
  /\ heap = InitHeap(<<>>, 0)
  /\ tasks = <<>>
  /\ root = 1
  /\ op = "init"
  /\ recv = Null
  /\ arg = Null
  /\ pred = NoPredicate
  /\ res = Null
  /\ pre = heap
  /\ preT = tasks
  /\ exc = Normal
  /\ steps = 0
  /\ now = FirstClock
  /\ time = Null
  /\ total = 0
  /\ \E str \in TimeStrings : item = NewTodoItem(1, ParseStr(str))
  /\ doc = <<>>
  /\ trackings = <<>>
  /\ stored = <<>>
  /\ effect = Null
  /\ started = <<>>
  /\ atLine = Null
  /\ preReg = <<>>
  /\ preDoc = <<>>
  /\ preItem = item
  /\ NoStore

\* what the methods of a TodoItem leave alone
NotTodo == <<treeVars, now, time, total, doc, trackings, stored, effect,
             started, atLine, preReg, preDoc, storeVars>>

DoTrackingStart ==
  /\ steps < MaxEvents
  /\ item' = TodoTrackingStart(item, now)
  /\ exc' = Normal
  /\ op' = "trackingStart"
  /\ preItem' = item
  /\ steps' = steps + 1
  /\ UNCHANGED NotTodo

DoTrackingEnd ==
  /\ steps < MaxEvents
  /\ item' = TodoTrackingEnd(item, now)
  /\ exc' = [logged |-> FALSE, raised |-> TodoTrackingEndThrows(item)]
  /\ op' = "trackingEnd"
  /\ preItem' = item
  /\ steps' = steps + 1
  /\ UNCHANGED NotTodo

DoComplete ==
  /\ steps < MaxEvents
  /\ item' = TodoCompleted(item)
  /\ exc' = Normal
  /\ op' = "complete"
  /\ preItem' = item
  /\ steps' = steps + 1
  /\ UNCHANGED NotTodo

NextTodo == DoTrackingStart \/ DoTrackingEnd \/ DoComplete \/ DoTick

SpecTodo == InitTodo /\ [][NextTodo]_vars

\* the actual time of an item, nothing when it has never been assigned
ActualOf(it) ==
  IF it.actualTimes = Undefined THEN EmptyTime ELSE it.actualTimes

\* C14: trackingStart from STOP records the clock in trackingStartTime and
\* makes the task RUNNING; a following trackingEnd from RUNNING returns
\* normally, adds the time since the start to the actual time, makes the
\* task STOP and sets trackingStartTime to 0; also for a task as constructed.
C14_TrackingStateMachine ==
  /\ (op = "trackingStart" /\ preItem.todoState = TodoStop) =>
       /\ item.trackingStartTime = now
       /\ item.todoState = TodoRunning
  /\ (op = "trackingEnd" /\ preItem.todoState = TodoRunning) =>
       /\ ~exc.raised
       /\ item.todoState = TodoStop
       /\ item.trackingStartTime = 0
       /\ ActualOf(item) =
            TimeAdd(ActualOf(preItem), ParseMs(now - preItem.trackingStartTime))

\* C15: whatever trackingStart, trackingEnd and complete calls have been
\* made, trackingStartTime is 0 whenever the task is not RUNNING.
C15_StartTimeZeroUnlessRunning ==
  item.todoState # TodoRunning => item.trackingStartTime = 0

\* C16: marking a task complete leaves its tracking state (STOP or
\* RUNNING), its trackingStartTime and its actual time as they were.
C16_CompleteIsOrthogonal ==
  op = "complete" =>
    /\ item.todoState = preItem.todoState
    /\ item.trackingStartTime = preItem.trackingStartTime
    /\ item.actualTimes = preItem.actualTimes

\* ------------------------------------------------------------------------
\* the records of line l, in the order of the registry
RecordsOf(reg, l) == LET Of(n) == n.line = l IN SelectSeq(reg, Of)

\* C17: when tracking is stopped on a tracked line L, by the stop control
\* or by toggling the completion of its task, the registry afterwards has no
\* record for L and the records of every other line are as before; the stop
\* control on a line without an active record changes neither the registry
\* nor the document.
C17_StopRemovesRecord ==
  /\ (op \in {"stopTracking", "toggleItemCompletion"}
        /\ IsTracking(preReg, atLine)) =>
       /\ ~HasTracking(trackings, atLine)
       /\ \A l \in DocLines \ {atLine} :
            RecordsOf(trackings, l) = RecordsOf(preReg, l)
       /\ Len(trackings) = Len(preReg) - Len(RecordsOf(preReg, atLine))
  /\ (op = "stopTracking" /\ ~IsTracking(preReg, atLine)) =>
       /\ trackings = preReg
       /\ doc = preDoc

\* C17 witness: tracking was stopped on a line whose record was not the
\* last one of the registry, and the record of the other line is still there
C17_Witness ==
  /\ op = "stopTracking"
  /\ IsTracking(preReg, atLine)
  /\ preReg[Len(preReg)].line # atLine
  /\ ~HasTracking(trackings, atLine)
  /\ Len(trackings) > 0

\* ------------------------------------------------------------------------
\* Sessions and the clock

\* the seconds credited for a session from t0 to t2: its whole minutes
Credited(t0, t2) == 60 * ((t2 - t0) \div MsPerMinute)

\* the lines whose session the last handler has stopped
StoppedLines ==
  IF op \in {"stopTracking", "toggleItemCompletion"}
    THEN {l \in {atLine} : IsTracking(preReg, l)}
  ELSE IF op = "stopOtherTracking"
    THEN {l \in DocLines \ {atLine} : IsTracking(preReg, l)}
  ELSE {}

\* C19: a session started at t0 and stopped at now, with any number of
\* reloads in between, leaves the task with the actual time it had at the
\* start plus the whole minutes of now - t0; a reload keeps every running
\* session with its start time, and the stop of a started item returns
\* normally with that credit.
C19_WallClockDelta ==
  /\ \A l \in StoppedLines :
       ToSeconds(doc[l].actualTimes) =
         ToSeconds(started[l].base) + Credited(started[l].t0, now)
  /\ op = "reload" =>
       \A l \in DocLines :
         IsTracking(preReg, l) =>
           /\ IsTracking(trackings, l)
           /\ TrackingOf(trackings, l).trackingStartTime = started[l].t0
  /\ (op = "trackingEnd" /\ preItem.todoState = TodoRunning) =>
       /\ ~exc.raised
       /\ ToSeconds(ActualOf(item)) =
            ToSeconds(ActualOf(preItem)) + Credited(preItem.trackingStartTime, now)

\* ------------------------------------------------------------------------
\* Loading a stored record list

\* elapsed times found in stored records
StoredTimes == {EmptyTime, NewTime(0, 59, 23, 0), NewTime(30, 3, 0, 0)}

\* records found in the store: tracking since the first clock value, or not
\* tracking
StoredRecords ==
  {[line |-> l, isTracking |-> b,
    trackingStartTime |-> IF b THEN FirstClock ELSE 0,
    elapsedTime |-> TimeObject(t)] :
     l \in DocLines, b \in BOOLEAN, t \in StoredTimes}

\* record lists found in the store
StoredLists ==
  UNION {[1..n -> StoredRecords] : n \in 0..NumLines}

InitLoad ==
  /\ heap = InitHeap(<<>>, 0)
  /\ tasks = <<>>
  /\ root = 1
  /\ op = "init"
  /\ recv = Null
  /\ arg = Null
  /\ pred = NoPredicate
  /\ res = Null
  /\ pre = heap
  /\ preT = tasks
  /\ exc = Normal
  /\ steps = 0
  /\ now = FirstClock
  /\ time = Null
  /\ total = 0
  /\ item = Null
  /\ doc = <<>>
  /\ stored \in StoredLists
  /\ trackings = <<>>
  /\ effect = Null
  /\ started = <<>>
  /\ atLine = Null
  /\ preReg = <<>>
  /\ preDoc = <<>>
  /\ preItem = Null
  /\ NoStore

NextLoad == DoReload \/ DoTick

SpecLoad == InitLoad /\ [][NextLoad]_vars

\* the seconds a stored Time object stands for
ObjectSeconds(obj) ==
  ((obj._days * 24 + obj._hours) * 60 + obj._minutes) * 60 + obj._seconds

\* the four components are within their ranges
Normalized(t) ==
  /\ t.seconds \in 0..59
  /\ t.minutes \in 0..59
  /\ t.hours \in 0..23
  /\ t.days >= 0

\* C18: when the stored record list is loaded at time now, every record
\* that is tracking gets as elapsed time its stored elapsed time plus the
\* whole minutes of now - trackingStartTime, what is left of a minute being
\* dropped, and every record that is not tracking keeps its stored elapsed
\* time; line, flag and start time are as stored.
C18_ResumeOnReload ==
  op = "reload" =>
    /\ Len(trackings) = Len(stored)
    /\ \A i \in DOMAIN stored :
         /\ trackings[i].line = stored[i].line
         /\ trackings[i].isTracking = stored[i].isTracking
         /\ trackings[i].trackingStartTime = stored[i].trackingStartTime
         /\ stored[i].isTracking =>
              /\ ToSeconds(trackings[i].elapsedTime) =
                   ObjectSeconds(stored[i].elapsedTime)
                     + 60 * ((now - stored[i].trackingStartTime) \div MsPerMinute)
              /\ Normalized(trackings[i].elapsedTime)
         /\ ~stored[i].isTracking =>
              TimeObject(trackings[i].elapsedTime) = stored[i].elapsedTime

\* C18 witness: a list with a tracking record started a minute and a half
\* ago and a record that is not tracking and holds some time has been loaded
C18_Witness ==
  /\ op = "reload"
  /\ \E i \in DOMAIN stored :
       /\ stored[i].isTracking
       /\ now - stored[i].trackingStartTime = MsPerMinute + HalfMinute
       /\ ToMinutes(trackings[i].elapsedTime)
            = ObjectSeconds(stored[i].elapsedTime) \div 60 + 1
  /\ \E j \in DOMAIN stored :
       /\ ~stored[j].isTracking
       /\ ObjectSeconds(stored[j].elapsedTime) > 0

\* ------------------------------------------------------------------------
\* Adding times

\* times built from component integers: each component at its lowest and
\* near or over its range
ComponentTimes ==
  {NewTime(s, m, h, d) : s \in {0, 59}, m \in {0, 61}, h \in {0, 23}, d \in {0, 1}}

\* millisecond counts: nothing, a minute and a half, an hour and a half, a
\* day
MsCounts == {0, MsPerMinute + HalfMinute, 90 * MsPerMinute, 24 * 60 * MsPerMinute}

StringTimes == {ParseStr(str) : str \in TimeStrings}

MsTimes == {ParseMs(ms) : ms \in MsCounts}

InitTime ==
  /\ heap = InitHeap(<<>>, 0)
  /\ tasks = <<>>
  /\ root = 1
  /\ op = "init"
  /\ recv = Null
  /\ arg = Null
  /\ pred = NoPredicate
  /\ res = Null
  /\ pre = heap
  /\ preT = tasks
  /\ exc = Normal
  /\ steps = 0
  /\ now = 0
  /\ time \in ComponentTimes \cup StringTimes \cup MsTimes
  /\ total = ToSeconds(time)
  /\ item = Null
  /\ doc = <<>>
  /\ trackings = <<>>
  /\ stored = <<>>
  /\ effect = Null
  /\ started = <<>>
  /\ atLine = Null
  /\ preReg = <<>>
  /\ preDoc = <<>>
  /\ preItem = Null
  /\ NoStore

\* what add leaves alone
NotTime == <<treeVars, exc, now, item, doc, trackings, stored, effect,
             started, atLine, preReg, preDoc, preItem, storeVars>>

\* time.add(other): other is added to the time, and its seconds to the sum
\* of the operands
Added(other, name) ==
  /\ steps < MaxEvents
  /\ time' = TimeAdd(time, other)
  /\ total' = total + ToSeconds(other)
  /\ op' = name
  /\ steps' = steps + 1
  /\ UNCHANGED NotTime

\* time.add(new Time(seconds, minutes, hours, days))
DoAddTime == \E other \in ComponentTimes : Added(other, "add")

\* time.add(Time.parseStr(str))
DoAddParsedStr == \E other \in StringTimes : Added(other, "addStr")

\* time.add(Time.parseMs(ms))
DoAddParsedMs == \E other \in MsTimes : Added(other, "addMs")

NextTime == DoAddTime \/ DoAddParsedStr \/ DoAddParsedMs

SpecTime == InitTime /\ [][NextTime]_vars

\* C20: after one or more add calls on times built from components, from
\* strings or from millisecond counts the result has seconds and minutes
\* below 60, hours below 24, no negative component, and it stands for the
\* sum of the operands.
C20_AddNormalizes ==
  op \in {"add", "addStr", "addMs"} =>
    /\ Normalized(time)
    /\ ToSeconds(time) = total

\* C20 witness: 59 s, 61 min and 23 h have been added to the same, which
\* carries at every component: 58 s, 3 min, 0 h and 2 days
C20_Witness ==
  /\ op = "add"
  /\ steps = 1
  /\ total = 2 * ToSeconds(NewTime(59, 61, 23, 0))
  /\ time = NewTime(58, 3, 0, 2)

\* ------------------------------------------------------------------------
\* Saving a record list and loading it again

\* elapsed times of records in memory: nothing, every component at or over
\* the top of its range, a time with seconds
MemoryTimes == {EmptyTime, NewTime(59, 61, 23, 1), NewTime(30, 3, 0, 0)}

\* records in memory: tracking since the first clock value, or not tracking
MemoryRecords ==
  {[line |-> l, isTracking |-> b,
    trackingStartTime |-> IF b THEN FirstClock ELSE 0,
    elapsedTime |-> t] :
     l \in DocLines, b \in BOOLEAN, t \in MemoryTimes}

\* record lists given to setTrackings
MemoryLists ==
  UNION {[1..n -> MemoryRecords] : n \in 0..NumLines}

\* setTrackings(list) has been called; the onSet effect has not run yet
InitStore ==
  /\ heap = InitHeap(<<>>, 0)
  /\ tasks = <<>>
  /\ root = 1
  /\ op = "init"
  /\ recv = Null
  /\ arg = Null
  /\ pred = NoPredicate
  /\ res = Null
  /\ pre = heap
  /\ preT = tasks
  /\ exc = Normal
  /\ steps = 0
  /\ now = FirstClock
  /\ time = Null
  /\ total = 0
  /\ item = Null
  /\ doc = <<>>
  /\ trackings \in MemoryLists
  /\ stored = <<>>
  /\ effect = Null
  /\ started = <<>>
  /\ atLine = Null
  /\ preReg = <<>>
  /\ preDoc = <<>>
  /\ preItem = Null
  /\ NoStore

\* the onSet effect of trackingStateList: the list is written to the store
DoSave ==
  /\ effect = Null
  /\ steps < MaxEvents
  /\ stored' = SaveTrackings(trackings)
  /\ UNCHANGED <<trackings, doc, effect, started>>
  /\ steps' = steps + 1
  /\ Handled("save", Null)

NextStore == DoSave \/ DoReload \/ DoTick

SpecStore == InitStore /\ [][NextStore]_vars

NumKeys == 2        \* record keys (dates)

\* the task records: a key and the text of the document of that key
TaskRecords == {[key |-> k, data |-> d] : k \in 1..NumKeys, d \in {"a", "b"}}

\* record arrays, at most one record for each key
TaskRecordArrays ==
  {arr \in UNION {[1..n -> TaskRecords] : n \in 0..NumKeys} :
     \A i, j \in DOMAIN arr : arr[i].key = arr[j].key => i = j}

\* what Storage.get can do: resolve with the value of the key, or reject
GetOutcomes == {"resolved", "rejected"}

\* what Storage.set can do: write and resolve with true, resolve with
\* something else without having written, or reject
SetOutcomes == {"true", "false", "rejected"}

InitPersist ==
  /\ heap = InitHeap(<<>>, 0)
  /\ tasks = <<>>
  /\ root = 1
  /\ op = "init"
  /\ recv = Null
  /\ arg = Null
  /\ pred = NoPredicate
  /\ res = Null
  /\ pre = heap
  /\ preT = tasks
  /\ exc = Normal
  /\ steps = 0
  /\ NoTimeKeeping
  /\ NoStore

\* what the storage functions leave alone besides the records
NotPersist == <<heap, tasks, root, recv, arg, pred, pre, preT, steps, timeVars,
                text, events, saveVars>>

\* setRecords(newRecords)
DoSetRecords ==
  /\ \E arr \in TaskRecordArrays : records' = arr
  /\ op' = "setRecords"
  /\ res' = Null
  /\ exc' = Normal
  /\ outcome' = "none"
  /\ UNCHANGED recStore
  /\ UNCHANGED NotPersist

\* loadRecords(): the awaited Storage.get is not inside a try block, so
\* its rejection is the rejection of loadRecords; a missing value is []
DoLoadRecords ==
  /\ \E got \in GetOutcomes :
       /\ outcome' = got
       /\ IF got = "resolved"
            THEN /\ res' = IF recStore.present THEN recStore.value ELSE <<>>
                 /\ exc' = Normal
            ELSE /\ res' = Null
                 /\ exc' = [logged |-> FALSE, raised |-> TRUE]
  /\ op' = "loadRecords"
  /\ UNCHANGED <<records, recStore>>
  /\ UNCHANGED NotPersist

\* saveRecords(records): true when Storage.set resolved with true, false
\* when it resolved with something else or rejected (logged)
DoSaveRecords ==
  /\ \E set \in SetOutcomes :
       /\ outcome' = set
       /\ recStore' = IF set = "true"
                        THEN [present |-> TRUE, value |-> records]
                        ELSE recStore
       /\ res' = (set = "true")
       /\ exc' = Caught(set = "rejected")
  /\ op' = "saveRecords"
  /\ UNCHANGED records
  /\ UNCHANGED NotPersist

NextPersist == DoSetRecords \/ DoLoadRecords \/ DoSaveRecords

SpecPersist == InitPersist /\ [][NextPersist]_vars

\* C22: when the store rejects, loadRecords and saveRecords still return
\* normally, saveRecords with false, and the records in memory, the stored
\* records and the tree are as before the call.
C22_PersistenceFailureCaught ==
  [][(op' \in {"loadRecords", "saveRecords"} /\ outcome' = "rejected") =>
       /\ ~exc'.raised
       /\ op' = "saveRecords" => res' = FALSE
       /\ records' = records
       /\ recStore' = recStore
       /\ heap' = heap
       /\ root' = root]_vars

\* ------------------------------------------------------------------------
\* Node ids

\* the ids of the nodes of the tree at r, breadth first, one for each place
IdList(h, r) == IdsOf(h, Bfs(h, r))

\* C23: in every tree reached from a tree with pairwise distinct ids by
\* filter, append and replace calls with freshly constructed nodes no id
\* stands at two places; filter adds no id, replace returns a tree with the
\* ids of its receiver, append one with the ids of its receiver and the id
\* of the new node.
C23_IdsUnique ==
  /\ \A i, j \in DOMAIN IdList(heap, root) :
       IdList(heap, root)[i] = IdList(heap, root)[j] => i = j
  /\ op = "filter" => Ids(heap, res) \subseteq Ids(pre, recv)
  /\ op = "replace" => Ids(heap, res) = Ids(pre, recv)
  /\ op \in {"append", "appendInner"} =>
       /\ pre[arg].id \notin Ids(pre, recv)
       /\ Ids(heap, res) = Ids(pre, recv) \cup {pre[arg].id}

\* C23 witness: a node with a child has been replaced in a tree that an
\* append had grown before
C23_Witness ==
  /\ op = "replace"
  /\ steps = 2
  /\ heap[arg].children # <<>>
  /\ arg \in Reach(heap, res)
  /\ Cardinality(Ids(heap, res)) >= 4

\* ------------------------------------------------------------------------
\* A predicate that throws during find

\* the nodes of the tree at r on which the predicate throws
Raising(h, r, P) == {x \in Reach(h, r) : Throws(P, h, x)}

\* C24: when the predicate throws on a node that comes, level by level and
\* left to right, before every node satisfying it, find returns null and
\* the exception is logged, whether or not a later node satisfies the
\* predicate; the tree is left as it was.
C24_FindNullOnRaise ==
  (/\ op = "find"
   /\ \E x \in Raising(pre, recv, pred) :
        \A y \in Satisfying(pre, recv, pred) : LevelBefore(pre, recv, x, y)) =>
    /\ res = Null
    /\ exc = Caught(TRUE)
    /\ heap = pre

\* C24 witness: find returned null after the predicate threw on a node of
\* the second level, although a node of the third level satisfies it
C24_Witness ==
  /\ op = "find"
  /\ res = Null
  /\ exc.logged
  /\ \E x \in Raising(pre, recv, pred) : \E y \in Satisfying(pre, recv, pred) :
       /\ DepthOf(pre, recv, x) = 1
       /\ DepthOf(pre, recv, y) = 2

\* ------------------------------------------------------------------------
\* Loading more than once

\* C25: whenever the registry is loaded, every record of a running session
\* comes with the actual time the task had at its start plus the whole
\* minutes since the start, however many loads and registry writes there
\* have been since.
C25_ResumeOncePerLoad ==
  op = "reload" =>
    \A i \in DOMAIN trackings :
      trackings[i].isTracking =>
        ToSeconds(trackings[i].elapsedTime) =
          ToSeconds(started[trackings[i].line].base)
            + Credited(started[trackings[i].line].t0, now)

\* ------------------------------------------------------------------------
\* The text of a tree (nodeToString)

\* node.toString(): what the line of a node says, apart from its indent: a
\* heading its level and title, a task what its Task says, any other node
\* its string
ToStringOf(h, t, a) ==
  [type |-> h[a].type,
   level |-> h[a].level,
   title |-> IF h[a].type = TypeTask THEN t[h[a].data].title ELSE h[a].data,
   completion |-> IF h[a].type = TypeTask THEN t[h[a].data].completion ELSE FALSE]

\* `${indent}${item.node.toString()}` with depthToIndent(item.depth)
LineOf(h, t, node, depth) ==
  [indent |-> depth * 2, text |-> ToStringOf(h, t, node)]

\* a TASK item of the flattened list: the Task is cloned, the node is cloned
\* and given the cloned Task; the item, not the tree, holds the clone
ItemCloned(h, t, elm) ==
  LET WithTask(c, task) ==
        [h |-> [c.h EXCEPT ![c.addr].data = task], t |-> c.t,
         node |-> c.addr, depth |-> elm.depth]
  IN WithTask(NodeClone(h, TaskClone(t, h[elm.node].data), elm.node),
              Len(t) + 1)

ItemForText(h, t, elm) ==
  IF h[elm.node].type = TypeTask
    THEN ItemCloned(h, t, elm)
    ELSE [h |-> h, t |-> t, node |-> elm.node, depth |-> elm.depth]

\* flatten.map(...): the lines of the items, in their order
RECURSIVE LinesOf(_, _, _)
LinesOf(h, t, items) ==
  IF items = <<>> THEN [h |-> h, t |-> t, lines |-> <<>>]
  ELSE LET Before(line, r) ==
             [h |-> r.h, t |-> r.t, lines |-> <<line>> \o r.lines]
           Rest(it) ==
             Before(LineOf(it.h, it.t, it.node, it.depth),
                    LinesOf(it.h, it.t, Tail(items)))
       IN Rest(ItemForText(h, t, Head(items)))

\* nodeToString(root)
NodeToString(h, t, r) == LinesOf(h, t, Flat(h, r))

\* data = nodeToString(root), for the tree that is held as root
DoNodeToString ==
  /\ steps < MaxOps
  /\ \E r \in {NodeToString(heap, tasks, root)} :
       /\ heap' = r.h
       /\ tasks' = r.t
       /\ text' = r.lines
  /\ op' = "nodeToString"
  /\ recv' = root
  /\ arg' = Null
  /\ pred' = NoPredicate
  /\ res' = Null
  /\ pre' = heap
  /\ preT' = tasks
  /\ exc' = Normal
  /\ steps' = steps + 1
  /\ UNCHANGED <<root, timeVars, records, recStore, outcome, events, saveVars>>

NextText ==
  DoFilter \/ DoAppend \/ DoAppendInner \/ DoReplace \/ DoNodeToString

SpecText == Init /\ [][NextText]_vars

\* the nodes below the top of the tree at r
Below(h, r) == Reach(h, r) \ {r}

\* C26: the text of a tree made by the structural operations from a tree
\* numbered in pre-order has one line for each node below the root; its
\* i-th line is the indent (two spaces for each level) and the toString()
\* of the one node whose line is i; nodeToString leaves every object of
\* the tree as it was.
C26_TextFollowsLines ==
  op = "nodeToString" =>
    /\ Len(text) = Cardinality(Below(pre, recv))
    /\ \A i \in DOMAIN text :
         \E x \in Below(pre, recv) :
           /\ pre[x].line = i
           /\ \A y \in Below(pre, recv) : pre[y].line = i => y = x
           /\ text[i] = LineOf(pre, preT, x, DepthOf(pre, recv, x) - 1)
    /\ \A a \in DOMAIN pre : heap[a] = pre[a]
    /\ \A ta \in DOMAIN preT : tasks[ta] = preT[ta]
    /\ root = recv

\* ------------------------------------------------------------------------
\* Editing the text while sessions run

\* a line typed in: a task with a title no other line has, nothing done
TypedTask ==
  [title |-> 0, completion |-> FALSE, taskState |-> TaskStop,
   trackingStartTime |-> 0, actualTimes |-> EmptyTime]

\* the lines of the document without line k
WithoutLine(d, k) == SubSeq(d, 1, k - 1) \o SubSeq(d, k + 1, Len(d))

\* setText(value) with a text in which line k is deleted and a new task
\* line is typed at the end: the text is set and saved, the lines are parsed
\* again; the registry is not touched
DoSetText ==
  /\ effect = Null
  /\ steps < MaxEvents
  /\ \E k \in DocLines :
       /\ ~IsTracking(trackings, k)
       /\ doc' = ParsedDoc(WithoutLine(doc, k) \o <<TypedTask>>)
       /\ Handled("setText", k)
  /\ UNCHANGED <<trackings, stored, effect, started>>
  /\ steps' = steps + 1

NextEdit ==
  \/ DoStartTracking \/ DoStartTrackingEarlier
  \/ DoStopOtherTracking \/ DoStopTracking
  \/ DoToggleItemCompletion \/ DoReload \/ DoTick
  \/ DoSetText

SpecEdit == InitTrack /\ [][NextEdit]_vars

\* C27: every record of the registry stands at the line where the task
\* whose start created it is now, whatever has been edited since.
C27_RecordDesignatesStartedTask ==
  \A i \in DOMAIN trackings :
    /\ trackings[i].line \in DOMAIN doc
    /\ doc[trackings[i].line].title = started[trackings[i].line].title

\* ------------------------------------------------------------------------
\* Importing calendar events (SyncModal.importGoogle)

MaxImport == 2      \* events of one import

\* a Task of the document with all the fields the import reads: the first
\* task is running, the second is done, every task has its own actual time
\* and tag; the tasks from the third node on have the same title
DocTask(task, k) ==
  [title |-> IF task.title > 2 THEN 3 ELSE 2, completion |-> (k = 2), id |-> k,
   taskState |-> IF k = 1 THEN TaskRunning ELSE TaskStop,
   actualTimes |-> NewTime(0, k, 0, 0), tags |-> <<k>>,
   estimatedTimes |-> EmptyTime]

\* the Task of an event: new id, nothing done, the event's duration as
\* estimated time
EventTask(title, id) ==
  [title |-> title, completion |-> FALSE, id |-> id,
   taskState |-> TaskStop, actualTimes |-> EmptyTime, tags |-> <<>>,
   estimatedTimes |-> NewTime(0, 30, 0, 0)]

\* eventToNode(event): a new TASK node with the Task of the event.
\* Result: [h, t, addr].
EventToNode(h, t, title) ==
  [h |-> NewNode(h, TypeTask, 0, Len(t) + 1, Null),
   t |-> Append(t, EventTask(title, Len(t) + 1)),
   addr |-> Len(h) + 1]

\* (x) => x.type === NODE_TYPE.TASK && x.data.title === n.data.title
TitlePredicate(h, t, r, title) ==
  [sat |-> {h[x].id : x \in {y \in Reach(h, r) :
                               /\ h[y].type = TypeTask
                               /\ t[h[y].data].title = title}},
   raise |-> {}]

\* (nn) => nn.line === matched.line
LinePredicate(h, r, l) ==
  [sat |-> {h[x].id : x \in {y \in Reach(h, r) : h[y].line = l}},
   raise |-> {}]

\* the same without t2.taskState = t1.taskState
KeptFromMatchedStopped(n, matched) ==
  LET t1 == n.t[n.h[matched].data]
  IN [h |-> [n.h EXCEPT ![n.addr].children = n.h[matched].children],
      t |-> [n.t EXCEPT ![n.h[n.addr].data].id = t1.id,
                        ![n.h[n.addr].data].actualTimes = t1.actualTimes,
                        ![n.h[n.addr].data].tags = t1.tags],
      addr |-> n.addr]

\* t2.id = t1.id ... n.children = matched.children, for the event node
\* n.addr and the matched node.  Result: [h, t, addr].
KeptFromMatched(n, matched) ==
  LET t1 == n.t[n.h[matched].data]
  IN [h |-> [n.h EXCEPT ![n.addr].children = n.h[matched].children],
      t |-> [n.t EXCEPT ![n.h[n.addr].data].id = t1.id,
                        ![n.h[n.addr].data].taskState = t1.taskState,
                        ![n.h[n.addr].data].actualTimes = t1.actualTimes,
                        ![n.h[n.addr].data].tags = t1.tags],
      addr |-> n.addr]

\* the callback of nodes.filter for one event, on the state s of the loop:
\* the heaps, the root so far, and the nodes kept for appending
MergeEvent(s, title) ==
  LET Kept(n) == [h |-> n.h, t |-> n.t, root |-> s.root,
                  rest |-> Append(s.rest, n.addr)]
      Put(r) == [h |-> r.h, t |-> r.t, root |-> r.res, rest |-> s.rest]
      Replaced(c, l) ==
        Put(Replace(c.h, c.t, s.root, c.addr, LinePredicate(c.h, s.root, l)))
      Cloned(k, l) == Replaced(NodeClone(k.h, k.t, k.addr), l)
      Decided(n, matched) ==
        IF matched = Null THEN Kept(n)
        ELSE Cloned(KeptFromMatched(n, matched), n.h[matched].line)
      Looked(n) ==
        Decided(n, Find(n.h, s.root, TitlePredicate(n.h, n.t, s.root, title)))
  IN Looked(EventToNode(s.h, s.t, title))

\* nodes.filter(...) over all events
RECURSIVE MergeAll(_, _)
MergeAll(s, titles) ==
  IF titles = <<>> THEN s
  ELSE MergeAll(MergeEvent(s, Head(titles)), Tail(titles))

\* nodes.forEach((n) => (root = root.append(n)))
RECURSIVE AppendAll(_, _, _, _)
AppendAll(h, t, r, nodes) ==
  IF nodes = <<>> THEN [h |-> h, t |-> t, res |-> r]
  ELSE LET Next1(a) == AppendAll(a.h, a.t, a.res, Tail(nodes))
       IN Next1(AppendNode(h, t, r, Head(nodes)))

\* importGoogle(): merge, append what did not match
ImportGoogle(h, t, r, titles) ==
  LET Appended(s) == AppendAll(s.h, s.t, s.root, s.rest)
  IN Appended(MergeAll([h |-> h, t |-> t, root |-> r, rest |-> <<>>], titles))

\* the titles events can have: the one several tasks have, and one that no
\* task of the document has
EventTitles == {0, 3}

EventLists == UNION {[1..n -> EventTitles] : n \in 1..MaxImport}

InitImport ==
  \E n \in 0..MaxNodes : \E par \in Shapes(n) :
    /\ heap = InitHeap(par, n)
    /\ tasks = [k \in DOMAIN InitTasks(par, n) |-> DocTask(InitTasks(par, n)[k], k)]
    /\ root = 1
    /\ op = "init"
    /\ recv = Null
    /\ arg = Null
    /\ pred = NoPredicate
    /\ res = Null
    /\ pre = heap
    /\ preT = tasks
    /\ exc = Normal
    /\ steps = 0
    /\ NoTimeKeeping
    /\ NoStore

\* importGoogle with the events of the modal; manager.setRoot(root)
DoImportGoogle ==
  /\ steps < MaxOps
  /\ \E titles \in EventLists :
       \E r \in {ImportGoogle(heap, tasks, root, titles)} :
       /\ heap' = r.h
       /\ tasks' = r.t
       /\ root' = r.res
       /\ res' = r.res
       /\ events' = titles
  /\ op' = "importGoogle"
  /\ recv' = root
  /\ arg' = Null
  /\ pred' = NoPredicate
  /\ pre' = heap
  /\ preT' = tasks
  /\ exc' = Normal
  /\ steps' = steps + 1
  /\ UNCHANGED <<timeVars, records, recStore, outcome, text, saveVars>>

NextImport == DoImportGoogle

SpecImport == InitImport /\ [][NextImport]_vars

\* the tree before the import and after it, in depth-first pre-order
OldOutline == Outline(pre, preT, recv)
NewOutline == Outline(heap, tasks, root)

\* position of node x in breadth-first order
BfsRank(h, r, x) == CHOOSE i \in DOMAIN Bfs(h, r) : Bfs(h, r)[i] = x

\* node x of the tree at r is a TASK with that title
TaskTitled(h, t, x, title) == h[x].type = TypeTask /\ t[h[x].data].title = title

\* the events no task of the old tree has the title of, in their order
UnmatchedEvents ==
  LET Matches(title) == \E x \in Reach(pre, recv) : TaskTitled(pre, preT, x, title)
  IN SelectSeq(events, LAMBDA title : ~Matches(title))

\* the pre-order positions of the old tree an event matches: the first TASK
\* in breadth-first order with the title of an event
MatchedPositions ==
  {i \in DOMAIN OldOutline :
     \E k \in DOMAIN events :
       /\ TaskTitled(pre, preT, Flat(pre, recv)[i].node, events[k])
       /\ \A y \in Reach(pre, recv) :
            TaskTitled(pre, preT, y, events[k])
              => BfsRank(pre, recv, Flat(pre, recv)[i].node) <= BfsRank(pre, recv, y)}

\* the Task of an event put in the place of a task: the event's own fields,
\* with id, taskState, actualTimes and tags of the task it replaces
MergedTask(old) ==
  [EventTask(old.title, old.id) EXCEPT !.taskState = old.taskState,
                                      !.actualTimes = old.actualTimes,
                                      !.tags = old.tags]

\* C28: after importGoogle, every event whose title a TASK of the tree has
\* is put in the place of the first such TASK in breadth-first order, with
\* the id, line, children and depth of that node and the id, taskState,
\* actualTimes and tags of its Task, and is not appended; every other node is
\* as before; the other events are appended to the root in their order; the
\* number of nodes is the old one plus the unmatched events, and the lines in
\* pre-order are 1, 2, 3, ...
C28_ImportMerges ==
  op = "importGoogle" =>
    /\ Len(NewOutline) = Len(OldOutline) + Len(UnmatchedEvents)
    /\ \A i \in DOMAIN NewOutline : NewOutline[i].line = i
    /\ \A i \in DOMAIN OldOutline :
         NewOutline[i] =
           IF i \in MatchedPositions
             THEN [OldOutline[i] EXCEPT !.payload = MergedTask(OldOutline[i].payload)]
             ELSE OldOutline[i]
    /\ \A j \in DOMAIN UnmatchedEvents :
         LET n == NewOutline[Len(OldOutline) + j]
         IN /\ n.type = TypeTask
            /\ n.depth = 0
            /\ n.id \notin Ids(pre, recv)
            /\ [n.payload EXCEPT !.id = 0] = EventTask(UnmatchedEvents[j], 0)
            /\ \A i \in DOMAIN OldOutline :
                 OldOutline[i].type = TypeTask => OldOutline[i].payload.id # n.payload.id

\* an import with an event that replaces a done, deeper-first-in-pre-order
\* duplicate's breadth-first-first task and an event that is appended
C28_Witness ==
  /\ op = "importGoogle"
  /\ UnmatchedEvents # <<>>
  /\ \E i \in MatchedPositions :
       /\ OldOutline[i].payload.completion
       /\ \E k \in 1..(i - 1) :
            /\ OldOutline[k].type = TypeTask
            /\ OldOutline[k].payload.title = OldOutline[i].payload.title
            /\ OldOutline[k].depth > OldOutline[i].depth

\* ------------------------------------------------------------------------
\* Saving the todo list text (Popup.tsx, TodoListTextState)

NumTexts == 2       \* different texts the user can type

Texts == 1..NumTexts

\* everything but the text, its store and the saved indicator
NotSaving == <<treeVars, exc, timeVars, records, recStore, outcome, text, events>>

\* the atom's default is the stored text; savingState's default is 0
InitSaving ==
  /\ heap = InitHeap(<<>>, 0)
  /\ tasks = <<>>
  /\ root = 1
  /\ op = "init"
  /\ recv = Null
  /\ arg = Null
  /\ pred = NoPredicate
  /\ res = Null
  /\ pre = heap
  /\ preT = tasks
  /\ exc = Normal
  /\ steps = 0
  /\ NoTimeKeeping
  /\ records = <<>>
  /\ recStore = NothingStored
  /\ outcome = "none"
  /\ text = <<>>
  /\ events = <<>>
  /\ \E value \in Texts :
       /\ textStore = value
       /\ inputValue = value
  /\ savingState = 0
  /\ pending = <<>>

\* sequence s without its i-th element
Without(s, i) == SubSeq(s, 1, i - 1) \o SubSeq(s, i + 1, Len(s))

\* setTodoListText(value) up to its await: setInputValue(value),
\* setSaving(0), Storage.set is called
DoSetTodoListText ==
  /\ steps < MaxEvents
  /\ \E value \in Texts :
       /\ inputValue' = value
       /\ pending' = Append(pending, value)
  /\ savingState' = 0
  /\ op' = "setTodoListText"
  /\ steps' = steps + 1
  /\ UNCHANGED textStore
  /\ UNCHANGED NotSaving

\* one Storage.set call in flight completes: the value is stored and the
\* call that awaited it goes on with setSaving(1)
DoSetCompleted ==
  /\ \E i \in DOMAIN pending :
       /\ textStore' = pending[i]
       /\ pending' = Without(pending, i)
  /\ savingState' = 1
  /\ op' = "saved"
  /\ UNCHANGED <<inputValue, steps>>
  /\ UNCHANGED NotSaving

NextSaving == DoSetTodoListText \/ DoSetCompleted

SpecSaving == InitSaving /\ [][NextSaving]_vars

\* C29: savingState is 1 only when no Storage.set call is in flight, and when
\* none is in flight the stored text is the text in memory.
C29_SavedIndicatorTruthful ==
  /\ savingState = 1 => pending = <<>>
  /\ pending = <<>> => textStore = inputValue

====
